---- MODULE Spec2Model ----
(***************************************************************************)
(* Model of calcular_variaciones (src/dashboard_oportunidades.py:106-183)  *)
(* and of its nested helper _parse_price (lines 114-122).                  *)
(*                                                                         *)
(* Python values are tagged records [t, n, e, s]:                          *)
(*   t = "none"     None                                                   *)
(*   t = "missing"  the key is absent from the dict                        *)
(*   t = "nan"      float('nan') (pandas' filler for a missing cell)       *)
(*   t = "num"      the number n / 10^e (int or float; 100 == 100.0)       *)
(*   t = "str"      the text s, a sequence of one-character strings        *)
(* A product dict is a record of eight such values, one per key.           *)
(* The DataFrame is modelled with the coercions of pandas 2.x (object      *)
(* columns keep None; numeric columns turn None into NaN).                 *)
(***************************************************************************)
EXTENDS Integers, Sequences, FiniteSets, TLC

VARIABLES
    productos_hoy,          \* the caller's list of today's dicts (the heap objects)
    productos_ayer,         \* the caller's list of yesterday's dicts
    df_ayer,                \* rows of the DataFrame built at lines 131-135
    productos_enriquecidos, \* list of references (indices) into productos_hoy
    fila_anterior,          \* per processed today record: matched df row, 0 = None
    result,                 \* the returned list, as references into productos_hoy
    pc,                     \* "call", "loop", "done", "raised"
    hoy0,                   \* productos_hoy as it was when the call started
    ayer0,                  \* productos_ayer as it was when the call started
    x,                      \* argument of a stand-alone _parse_price call
    parsed,                 \* its return value
    ppc                     \* "idle", "call", "done" for that call

vars == <<productos_hoy, productos_ayer, df_ayer, productos_enriquecidos,
          fila_anterior, result, pc, hoy0, ayer0, x, parsed, ppc>>

----------------------------------------------------------------------------
\* Bounds of the model
MaxHoy == 2
MaxAyer == 2
MaxAyerMatch == 2
MaxStrLen == 3

----------------------------------------------------------------------------
\* Python values

Val(t, n, e, s) == [t |-> t, n |-> n, e |-> e, s |-> s]
NONE == Val("none", 0, 0, <<>>)
MISSING == Val("missing", 0, 0, <<>>)
NAN == Val("nan", 0, 0, <<>>)
Str(s) == Val("str", 0, 0, s)

RECURSIVE Norm(_, _)
\* the number n / 10^e in canonical form (1.50 == 1.5, -0.0 == 0)
Norm(n, e) ==
    IF e > 0 /\ n % 10 = 0 THEN Norm(n \div 10, e - 1) ELSE Val("num", n, e, <<>>)

Num(n) == Norm(n, 0)

RECURSIVE Pow10(_)
Pow10(k) == IF k = 0 THEN 1 ELSE 10 * Pow10(k - 1)

IsNone(v) == v.t = "none"

\* Python truthiness of a value (`if v:`)
Truthy(v) ==
    CASE v.t = "none" -> FALSE
      [] v.t = "num" -> v.n # 0
      [] v.t = "str" -> v.s # <<>>
      [] OTHER -> TRUE

\* a - b on floats: NaN is contagious
Minus(a, b) ==
    IF a.t = "nan" \/ b.t = "nan" THEN NAN
    ELSE LET e == IF a.e > b.e THEN a.e ELSE b.e
         IN Norm(a.n * Pow10(e - a.e) - b.n * Pow10(e - b.e), e)

----------------------------------------------------------------------------
\* Text

DigitOf == ("0" :> 0) @@ ("1" :> 1) @@ ("2" :> 2) @@ ("3" :> 3) @@ ("4" :> 4) @@
           ("5" :> 5) @@ ("6" :> 6) @@ ("7" :> 7) @@ ("8" :> 8) @@ ("9" :> 9)

IsDigit(c) == c \in DOMAIN DigitOf
IsDot(c) == c = "."

RECURSIVE LStrip(_)
LStrip(s) == IF s # <<>> /\ Head(s) = " " THEN LStrip(Tail(s)) ELSE s

RECURSIVE RStrip(_)
RStrip(s) ==
    IF s # <<>> /\ s[Len(s)] = " " THEN RStrip(SubSeq(s, 1, Len(s) - 1)) ELSE s

\* str.strip()
Strip(s) == RStrip(LStrip(s))

\* re.sub(r'[^\d]', '', s)
OnlyDigits(s) == SelectSeq(s, IsDigit)

RECURSIVE DigitsVal(_)
\* the value of a non-empty string of digits
DigitsVal(ds) ==
    IF ds = <<>> THEN 0
    ELSE DigitsVal(SubSeq(ds, 1, Len(ds) - 1)) * 10 + DigitOf[ds[Len(ds)]]

Unsigned(s) == IF s # <<>> /\ Head(s) \in {"-", "+"} THEN Tail(s) ELSE s

\* float(s) succeeds: [ws] [sign] (digits [. [digits]] | . digits) [ws]
FloatOk(s) ==
    LET b == Unsigned(Strip(s))
    IN /\ \A k \in 1..Len(b) : IsDigit(b[k]) \/ IsDot(b[k])
       /\ Len(SelectSeq(b, IsDot)) <= 1
       /\ OnlyDigits(b) # <<>>

\* the value of float(s) when it succeeds
FloatVal(s) ==
    LET t == Strip(s)
        b == Unsigned(t)
        dot == {k \in 1..Len(b) : IsDot(b[k])}
        frac == IF dot = {} THEN 0 ELSE Len(b) - (CHOOSE k \in dot : TRUE)
        m == DigitsVal(OnlyDigits(b))
    IN Norm(IF Head(t) = "-" THEN 0 - m ELSE m, frac)

\* _parse_price without the direct float() attempt of lines 117-118
ParsePriceNoFloat(v) ==
    IF IsNone(v) THEN NONE
    ELSE IF v.t \in {"num", "nan"} THEN v
    ELSE LET digits == OnlyDigits(Strip(v.s))
         IN IF digits # <<>> THEN Num(DigitsVal(digits)) ELSE NONE

\* _parse_price(x)
ParsePrice(v) ==
    IF IsNone(v) THEN NONE
    ELSE IF v.t \in {"num", "nan"} THEN v
    ELSE IF FloatOk(v.s) THEN FloatVal(v.s)
    ELSE LET digits == OnlyDigits(Strip(v.s))
         IN IF digits # <<>> THEN Num(DigitsVal(digits)) ELSE NONE

----------------------------------------------------------------------------
\* Product dicts

Dict(titulo, id_producto, link_publicacion, posicion, precio, vr, vp, ra) ==
    [titulo |-> titulo, id_producto |-> id_producto,
     link_publicacion |-> link_publicacion, posicion |-> posicion,
     precio |-> precio, variacion_ranking |-> vr, variacion_precio |-> vp,
     ranking_anterior |-> ra]

\* dict.get(key): None when the key is absent
Get(d, key) == IF d[key].t = "missing" THEN NONE ELSE d[key]

\* lines 126-128 with the assignment to ranking_anterior left out
ResetEmptyKeepsRanking(p) ==
    [p EXCEPT !.variacion_ranking = NONE, !.variacion_precio = NONE]

\* lines 126-128: the three enrichment keys of p set to None
ResetEmpty(p) ==
    [p EXCEPT !.variacion_ranking = NONE, !.variacion_precio = NONE,
              !.ranking_anterior = NONE]

\* lines 145-147: the three enrichment keys of producto_hoy set to None
ResetLoop(p) ==
    [p EXCEPT !.variacion_ranking = NONE, !.variacion_precio = NONE,
              !.ranking_anterior = NONE]

----------------------------------------------------------------------------
\* The DataFrame of yesterday's records (lines 131-135)

Columns == {"id_producto", "link_publicacion", "posicion", "precio", "titulo"}

\* pd.DataFrame(list of dicts): a key absent from one dict becomes NaN
RawColumn(ayer, c) ==
    [j \in 1..Len(ayer) |-> IF ayer[j][c].t = "missing" THEN NAN ELSE ayer[j][c]]

\* pandas' dtype inference on a column of objects: with no text in it and at
\* least one number or NaN the column becomes float64 and None becomes NaN;
\* otherwise it stays an object column and keeps its values
MaybeConvertObjects(col) ==
    IF /\ \A j \in DOMAIN col : col[j].t # "str"
       /\ \E j \in DOMAIN col : col[j].t \in {"num", "nan"}
    THEN [j \in DOMAIN col |-> IF col[j].t = "none" THEN NAN ELSE col[j]]
    ELSE col

\* column c of df_ayer; a column no dict has is added as None (lines 132-134)
DfColumn(ayer, c) ==
    IF \E j \in 1..Len(ayer) : ayer[j][c].t # "missing"
    THEN MaybeConvertObjects(RawColumn(ayer, c))
    ELSE [j \in 1..Len(ayer) |-> NONE]

\* df_ayer['precio'].apply(_parse_price) (line 135)
PrecioNorm(ayer) ==
    LET precio == DfColumn(ayer, "precio")
    IN MaybeConvertObjects([j \in 1..Len(ayer) |-> ParsePrice(precio[j])])

DataFrame(ayer) ==
    [j \in 1..Len(ayer) |->
        [c \in Columns \cup {"precio_norm"} |->
            IF c = "precio_norm" THEN PrecioNorm(ayer)[j] ELSE DfColumn(ayer, c)[j]]]

----------------------------------------------------------------------------
\* Matching (lines 149-166)

\* one element of `column == value`: None and NaN equal nothing
PdEq(cell, v) == cell.t \in {"num", "str"} /\ cell = v

\* the rows selected by df[c] == v
Mask(df, c, v) == {j \in 1..Len(df) : PdEq(df[j][c], v)}

\* df[mask].iloc[0], as a row number
Iloc0(mask) == CHOOSE j \in mask : \A k \in mask : j <= k

\* `if v: mask = df[c] == v; if mask.any(): fila = df[mask].iloc[0]`; 0 = no row
MatchOn(df, c, v) ==
    IF Truthy(v) /\ Mask(df, c, v) # {} THEN Iloc0(Mask(df, c, v)) ELSE 0

\* the cascade tried in the order id_producto, titulo, link_publicacion
FilaAnteriorIdFirst(df, hoy) ==
    LET byId == MatchOn(df, "id_producto", Get(hoy, "id_producto"))
        byTitulo == MatchOn(df, "titulo", Get(hoy, "titulo"))
    IN IF byId # 0 THEN byId
       ELSE IF byTitulo # 0 THEN byTitulo
       ELSE MatchOn(df, "link_publicacion", Get(hoy, "link_publicacion"))

\* the cascade without its last step, the fallback on link_publicacion
FilaAnteriorNoLink(df, hoy) ==
    LET byTitulo == MatchOn(df, "titulo", Get(hoy, "titulo"))
    IN IF byTitulo # 0 THEN byTitulo
       ELSE MatchOn(df, "id_producto", Get(hoy, "id_producto"))

\* fila_anterior after lines 149-166, as a row number of df_ayer (0 = None)
FilaAnterior(df, hoy) ==
    LET byTitulo == MatchOn(df, "titulo", Get(hoy, "titulo"))
        byId == MatchOn(df, "id_producto", Get(hoy, "id_producto"))
    IN IF byTitulo # 0 THEN byTitulo
       ELSE IF byId # 0 THEN byId
       ELSE MatchOn(df, "link_publicacion", Get(hoy, "link_publicacion"))

----------------------------------------------------------------------------
\* Variations (lines 168-179)

\* int(v) succeeds: a number, or text that is an optionally signed digit string
IntOk(v) ==
    \/ v.t = "num"
    \/ /\ v.t = "str"
       /\ LET b == Unsigned(Strip(v.s))
          IN b # <<>> /\ \A k \in 1..Len(b) : IsDigit(b[k])

\* the value of int(v) when it succeeds (a float is truncated towards zero)
IntVal(v) ==
    IF v.t = "num"
    THEN IF v.n >= 0 THEN Num(v.n \div Pow10(v.e))
         ELSE Num(0 - ((0 - v.n) \div Pow10(v.e)))
    ELSE LET t == Strip(v.s)
             m == DigitsVal(Unsigned(t))
         IN Num(IF Head(t) = "-" THEN 0 - m ELSE m)

\* lines 169-172: int(posicion) of the matched row, None if absent or not a number
RankingAnterior(fila) ==
    IF ~IsNone(fila["posicion"]) /\ IntOk(fila["posicion"])
    THEN IntVal(fila["posicion"])
    ELSE NONE

\* line 176 raises TypeError: an int minus a text value
Raises(ranking_anterior, ranking_actual) ==
    ~IsNone(ranking_anterior) /\ ranking_actual.t = "str"

\* producto_hoy after lines 145-179, given the matched row f (0 = None)
Enriquecido(df, hoy, f) ==
    LET ranking_actual == Get(hoy, "posicion")
        precio_actual == ParsePrice(Get(hoy, "precio"))
        base == ResetLoop(hoy)
    IN IF f = 0 THEN base
       ELSE LET ranking_anterior == RankingAnterior(df[f])
                precio_anterior == df[f]["precio_norm"]
                conRanking ==
                    IF ~IsNone(ranking_anterior) /\ ~IsNone(ranking_actual)
                       /\ ranking_actual.t # "str"
                    THEN [base EXCEPT
                            !.variacion_ranking = Minus(ranking_anterior, ranking_actual),
                            !.ranking_anterior = ranking_anterior]
                    ELSE base
            IN IF ~IsNone(precio_anterior) /\ ~IsNone(precio_actual)
               THEN [conRanking EXCEPT
                        !.variacion_precio = Minus(precio_actual, precio_anterior)]
               ELSE conRanking

----------------------------------------------------------------------------
\* Actions

Refs(n) == [k \in 1..n |-> k]

\* lines 124-129: no yesterday records; the caller's own list is returned
EmptyAyerReturn ==
    /\ pc = "call"
    /\ productos_ayer = <<>>
    /\ productos_hoy' = [k \in 1..Len(productos_hoy) |-> ResetEmpty(productos_hoy[k])]
    /\ result' = Refs(Len(productos_hoy))
    /\ pc' = "done"
    /\ UNCHANGED <<productos_ayer, df_ayer, productos_enriquecidos, fila_anterior,
                   hoy0, ayer0, x, parsed, ppc>>

\* lines 131-137
BuildDataFrame ==
    /\ pc = "call"
    /\ productos_ayer # <<>>
    /\ df_ayer' = DataFrame(productos_ayer)
    /\ productos_enriquecidos' = <<>>
    /\ pc' = "loop"
    /\ UNCHANGED <<productos_hoy, productos_ayer, fila_anterior, result,
                   hoy0, ayer0, x, parsed, ppc>>

\* lines 138-181: one iteration of the loop over productos_hoy
LoopStep ==
    /\ pc = "loop"
    /\ Len(productos_enriquecidos) < Len(productos_hoy)
    /\ LET i == Len(productos_enriquecidos) + 1
           hoy == productos_hoy[i]
           f == FilaAnterior(df_ayer, hoy)
       IN /\ fila_anterior' = Append(fila_anterior, f)
          /\ IF f # 0 /\ Raises(RankingAnterior(df_ayer[f]), Get(hoy, "posicion"))
             THEN /\ productos_hoy' = [productos_hoy EXCEPT ![i] = ResetLoop(hoy)]
                  /\ pc' = "raised"
                  /\ UNCHANGED productos_enriquecidos
             ELSE /\ productos_hoy' =
                        [productos_hoy EXCEPT ![i] = Enriquecido(df_ayer, hoy, f)]
                  /\ productos_enriquecidos' = Append(productos_enriquecidos, i)
                  /\ UNCHANGED pc
    /\ UNCHANGED <<productos_ayer, df_ayer, result, hoy0, ayer0, x, parsed, ppc>>

\* line 183
Return ==
    /\ pc = "loop"
    /\ Len(productos_enriquecidos) = Len(productos_hoy)
    /\ result' = productos_enriquecidos
    /\ pc' = "done"
    /\ UNCHANGED <<productos_hoy, productos_ayer, df_ayer, productos_enriquecidos,
                   fila_anterior, hoy0, ayer0, x, parsed, ppc>>

\* a call _parse_price(x) (lines 114-122)
ParsePriceCall ==
    /\ ppc = "call"
    /\ parsed' = ParsePrice(x)
    /\ ppc' = "done"
    /\ UNCHANGED <<productos_hoy, productos_ayer, df_ayer, productos_enriquecidos,
                   fila_anterior, result, pc, hoy0, ayer0, x>>

Next == EmptyAyerReturn \/ BuildDataFrame \/ LoopStep \/ Return

NextParse == ParsePriceCall

----------------------------------------------------------------------------
\* Inputs

SeqsUpTo(S, n) == UNION {[1..k -> S] : k \in 0..n}

TituloA == Str(<<"A">>)
TituloB == Str(<<"B">>)
LinkU1 == Str(<<"u", "1">>)

\* today's dicts of the main specification: rank and price vary
HoyRecs(pre) ==
    {Dict(ti, NONE, NONE, po, pr, pre, pre, pre) :
        ti \in {TituloA, TituloB},
        po \in {MISSING, Num(1), Str(<<"x">>)},
        pr \in {NONE, Num(100), Str(<<"$">>)}}

\* yesterday's dicts of the main specification
AyerRecs ==
    {Dict(ti, NONE, NONE, po, pr, MISSING, MISSING, MISSING) :
        ti \in {TituloA, TituloB},
        po \in {NONE, Num(3), Str(<<"x">>)},
        pr \in {MISSING, NONE, Num(120), Str(<<"$", "1", "5">>)}}

CallStart(hoy, ayer) ==
    /\ productos_hoy = hoy
    /\ productos_ayer = ayer
    /\ hoy0 = hoy
    /\ ayer0 = ayer
    /\ df_ayer = <<>>
    /\ productos_enriquecidos = <<>>
    /\ fila_anterior = <<>>
    /\ result = <<>>
    /\ pc = "call"
    /\ x = NONE
    /\ parsed = NONE
    /\ ppc = "idle"

Init ==
    \E pre \in {MISSING, Num(5)} :
        \E hoy \in SeqsUpTo(HoyRecs(pre), MaxHoy) :
            \E ayer \in SeqsUpTo(AyerRecs, MaxAyer) : CallStart(hoy, ayer)

Spec == Init /\ [][Next]_vars

\* The call with few or no yesterday records and every combination of
\* enrichment keys already present on today's dicts
HoyRecsPre ==
    {Dict(ti, NONE, NONE, po, Num(100), vr, vp, ra) :
        ti \in {TituloA, TituloB},
        po \in {MISSING, Num(1)},
        vr \in {MISSING, Num(5)}, vp \in {MISSING, Num(5)}, ra \in {MISSING, Num(5)}}

InitAyerVacio ==
    \E hoy \in SeqsUpTo(HoyRecsPre, MaxHoy) :
        \E ayer \in SeqsUpTo({Dict(ti, NONE, NONE, Num(3), Num(120),
                                   MISSING, MISSING, MISSING) :
                                ti \in {TituloA, TituloB}}, 1) :
            CallStart(hoy, ayer)

SpecAyerVacio == InitAyerVacio /\ [][Next]_vars

\* The call with one today record whose identity keys vary against
\* yesterday records whose identity keys vary
HoyRecsMatch ==
    {Dict(ti, id, li, Num(1), Num(100), MISSING, MISSING, MISSING) :
        ti \in {NONE, Str(<<>>), TituloA},
        id \in {NONE, Num(0), Str(<<>>), Num(7)},
        li \in {NONE, Str(<<>>), LinkU1}}

AyerRecsMatch ==
    {Dict(ti, id, li, Num(3), Num(120), MISSING, MISSING, MISSING) :
        ti \in {Str(<<>>), TituloA, TituloB},
        id \in {NONE, Num(0), Num(7)},
        li \in {Str(<<>>), LinkU1}}

InitMatch ==
    \E hoy \in SeqsUpTo(HoyRecsMatch, 1) :
        \E ayer \in SeqsUpTo(AyerRecsMatch, MaxAyerMatch) : CallStart(hoy, ayer)

SpecMatch == InitMatch /\ [][Next]_vars

\* Stand-alone calls of _parse_price
Chars == {"0", "1", "5", "$", ".", ",", "-", " "}

\* "$1.234,56"
PrecioFormateado == <<"$", "1", ".", "2", "3", "4", ",", "5", "6">>

PriceInputs ==
    {NONE, NAN, Num(100)} \cup {Str(s) : s \in SeqsUpTo(Chars, MaxStrLen)}
        \cup {Str(PrecioFormateado)}

InitParse ==
    /\ x \in PriceInputs
    /\ parsed = NONE
    /\ ppc = "call"
    /\ productos_hoy = <<>>
    /\ productos_ayer = <<>>
    /\ hoy0 = <<>>
    /\ ayer0 = <<>>
    /\ df_ayer = <<>>
    /\ productos_enriquecidos = <<>>
    /\ fila_anterior = <<>>
    /\ result = <<>>
    /\ pc = "idle"

SpecParse == InitParse /\ [][NextParse]_vars

----------------------------------------------------------------------------
\* Vocabulary of the properties

InputKeys == {"titulo", "posicion", "precio", "link_publicacion", "id_producto"}

Finished == pc \in {"done", "raised"}

\* the k-th returned record
Out(k) == productos_hoy[result[k]]

\* the yesterday row matched for the k-th today record (0 = none)
Fila(k) == IF k \in DOMAIN fila_anterior THEN fila_anterior[k] ELSE 0

\* a known integer position
IsInt(v) == v.t = "num" /\ v.e = 0

IsNumber(v) == v.t = "num"

\* exact equality of two present values (text with text, number with number)
SameValue(a, b) == a.t \in {"num", "str"} /\ a = b

\* the yesterday records whose key equals that of the today record
Equal(hoy, ayer, key) ==
    {j \in 1..Len(ayer) : SameValue(Get(ayer[j], key), Get(hoy, key))}

\* the k-th returned record is the k-th today record, identity and data keys intact
SameOrder ==
    /\ Len(result) = Len(hoy0)
    /\ \A k \in 1..Len(result) :
          \A key \in InputKeys : Out(k)[key] = hoy0[k][key]

\* variacion_ranking of the k-th record as the specification defines it
ExpectedVariacionRanking(k) ==
    IF /\ Fila(k) # 0
       /\ IsInt(Get(ayer0[Fila(k)], "posicion"))
       /\ IsInt(Get(hoy0[k], "posicion"))
    THEN Num(Get(ayer0[Fila(k)], "posicion").n - Get(hoy0[k], "posicion").n)
    ELSE NONE

\* variacion_precio of the k-th record as the specification defines it
ExpectedVariacionPrecio(k) ==
    IF /\ Fila(k) # 0
       /\ IsNumber(ParsePrice(Get(hoy0[k], "precio")))
       /\ IsNumber(ParsePrice(Get(ayer0[Fila(k)], "precio")))
    THEN Minus(ParsePrice(Get(hoy0[k], "precio")),
               ParsePrice(Get(ayer0[Fila(k)], "precio")))
    ELSE NONE

----------------------------------------------------------------------------
\* C1: for every pair of inputs the call returns a sequence of the length of
\* today_records whose k-th element is the k-th today record enriched (same
\* titulo, posicion, precio, link_publicacion, id_producto).
C1_SameLengthAndOrder == Finished => (pc = "done" /\ SameOrder)

\* What does hold of C1: every call that returns preserves length and order.
C1_SameOrderOnReturn == pc = "done" => SameOrder

\* C2: with no yesterday records the call returns every today record with
\* variacion_ranking, variacion_precio and ranking_anterior null, whatever the
\* record held before.
C2_EmptyAyerAllNull ==
    (ayer0 = <<>> /\ pc # "call") =>
        /\ pc = "done"
        /\ Len(result) = Len(hoy0)
        /\ \A k \in 1..Len(result) :
              /\ Out(k).variacion_ranking = NONE
              /\ Out(k).variacion_precio = NONE
              /\ Out(k).ranking_anterior = NONE

C2_Witness ==
    /\ pc = "done"
    /\ ayer0 = <<>>
    /\ Len(result) = 2
    /\ hoy0[1].ranking_anterior = Num(5)
    /\ hoy0[2].variacion_precio = Num(5)
    /\ Out(1).ranking_anterior = NONE

\* C3 as stated: a today record whose titulo equals the titulo of exactly one
\* yesterday record gets that record as its prior, whatever id_producto or
\* link_publicacion match elsewhere.
C3_TitleFirstAnyTitle ==
    \A k \in DOMAIN fila_anterior :
        LET T == Equal(hoy0[k], ayer0, "titulo")
        IN Cardinality(T) = 1 => fila_anterior[k] \in T

\* C3 amended: the same for a today record whose titulo is not empty.
C3_TitleFirst ==
    \A k \in DOMAIN fila_anterior :
        LET T == Equal(hoy0[k], ayer0, "titulo")
        IN (Cardinality(T) = 1 /\ Get(hoy0[k], "titulo").s # <<>>)
              => fila_anterior[k] \in T

C3_Witness ==
    /\ pc = "done"
    /\ Len(fila_anterior) = 1
    /\ Get(hoy0[1], "titulo") = TituloA
    /\ Equal(hoy0[1], ayer0, "titulo") = {2}
    /\ Equal(hoy0[1], ayer0, "id_producto") = {1}
    /\ Equal(hoy0[1], ayer0, "link_publicacion") = {1}
    /\ fila_anterior[1] = 2

\* C4: variacion_ranking is (prior posicion) - (today posicion) exactly when a
\* prior record is matched and both positions are known integers, and null in
\* every other case.
C4_VariacionRanking ==
    Finished =>
        /\ pc = "done"
        /\ \A k \in 1..Len(hoy0) :
              Out(k).variacion_ranking = ExpectedVariacionRanking(k)

\* What does hold of C4: the records of every call that returns.
C4_VariacionRankingOnReturn ==
    pc = "done" =>
        \A k \in 1..Len(result) :
            Out(k).variacion_ranking = ExpectedVariacionRanking(k)

\* C5: variacion_precio is normalize(today precio) - normalize(prior precio)
\* exactly when a prior record is matched and both prices normalize to
\* numbers, and null in every other case.
C5_VariacionPrecio ==
    pc = "done" =>
        \A k \in 1..Len(result) :
            Out(k).variacion_precio = ExpectedVariacionPrecio(k)

\* C6: the call never raises; a record whose posicion, or whose matched
\* prior's posicion, is missing or not an integer gets variacion_ranking null
\* and its variacion_precio is still computed when both prices normalize.
C6_NeverRaises ==
    /\ pc # "raised"
    /\ pc = "done" =>
          \A k \in 1..Len(result) :
              (\/ ~IsInt(Get(hoy0[k], "posicion"))
               \/ (Fila(k) # 0 /\ ~IsInt(Get(ayer0[Fila(k)], "posicion"))))
                 => /\ Out(k).variacion_ranking = NONE
                    /\ ExpectedVariacionPrecio(k) # NONE
                          => Out(k).variacion_precio = ExpectedVariacionPrecio(k)

\* C7: after any call the caller's today and yesterday records have exactly
\* the keys and values they had before it.
C7_InputsReadOnly ==
    Finished => (productos_hoy = hoy0 /\ productos_ayer = ayer0)

\* What does hold of C7: yesterday's records are never changed.
C7_AyerReadOnly == productos_ayer = ayer0

IsCut(s, a, b, c, d, z) ==
    /\ a <= b /\ b <= c /\ c <= d /\ d <= z
    /\ \A k \in 1..a : s[k] = " "
    /\ \A k \in (z + 1)..Len(s) : s[k] = " "
    /\ b - a <= 1 /\ \A k \in (a + 1)..b : s[k] \in {"-", "+"}
    /\ \A k \in (b + 1)..c : IsDigit(s[k])
    /\ d - c <= 1 /\ \A k \in (c + 1)..d : s[k] = "."
    /\ \A k \in (d + 1)..z : IsDigit(s[k])
    /\ (c - b) + (z - d) >= 1
    /\ (d = c) => (z = d)

Cuts(s) ==
    LET P == 0..Len(s)
    IN {q \in P \X P \X P \X P \X P : IsCut(s, q[1], q[2], q[3], q[4], q[5])}

\* the number a cut text writes
CutValue(s, q) ==
    LET m == DigitsVal(SubSeq(s, q[2] + 1, q[3]) \o SubSeq(s, q[4] + 1, q[5]))
        neg == q[2] > q[1] /\ s[q[2]] = "-"
    IN Norm(IF neg THEN 0 - m ELSE m, q[5] - q[4])

C9_RankingAnterior ==
    pc = "done" =>
        \A k \in 1..Len(result) :
            /\ (Fila(k) # 0 /\ IsInt(Get(ayer0[Fila(k)], "posicion")))
                  => Out(k).ranking_anterior = Get(ayer0[Fila(k)], "posicion")
            /\ Fila(k) = 0 => Out(k).ranking_anterior = NONE

\* the three enrichment keys of today's k-th dict are None
AllNull(k) ==
    /\ productos_hoy[k].variacion_ranking = NONE
    /\ productos_hoy[k].variacion_precio = NONE
    /\ productos_hoy[k].ranking_anterior = NONE

\* C10 as stated: without a title match, a non-null id_producto (0 and ""
\* included) equal to a yesterday record's makes that record the prior; else a
\* non-null link_publicacion equal to a yesterday record's does; with no match
\* at all the three enrichment fields are null.
C10_CascadeNonNull ==
    \A k \in DOMAIN fila_anterior :
        LET hoy == hoy0[k]
            NonNullEqual(key) ==
                {j \in 1..Len(ayer0) :
                    /\ ~IsNone(Get(hoy, key))
                    /\ Get(ayer0[j], key) = Get(hoy, key)}
            I == NonNullEqual("id_producto")
            L == NonNullEqual("link_publicacion")
        IN NonNullEqual("titulo") = {} =>
              /\ I # {} => fila_anterior[k] \in I
              /\ (I = {} /\ L # {}) => fila_anterior[k] \in L
              /\ (I = {} /\ L = {}) => (fila_anterior[k] = 0 /\ AllNull(k))

\* the yesterday records whose key equals the today record's non-empty,
\* non-zero key
TruthyEqual(hoy, ayer, key) ==
    {j \in Equal(hoy, ayer, key) :
        Get(hoy, key) # Str(<<>>) /\ Get(hoy, key) # Num(0)}

\* C10 amended: the same cascade, where a key takes part only if it is
\* neither null nor 0 nor the empty string.
C10_Cascade ==
    \A k \in DOMAIN fila_anterior :
        LET I == TruthyEqual(hoy0[k], ayer0, "id_producto")
            L == TruthyEqual(hoy0[k], ayer0, "link_publicacion")
        IN TruthyEqual(hoy0[k], ayer0, "titulo") = {} =>
              /\ I # {} => fila_anterior[k] \in I
              /\ (I = {} /\ L # {}) => fila_anterior[k] \in L
              /\ (I = {} /\ L = {}) => (fila_anterior[k] = 0 /\ AllNull(k))

C10_Witness ==
    /\ pc = "done"
    /\ Len(fila_anterior) = 1
    /\ Get(hoy0[1], "id_producto") = Num(0)
    /\ Equal(hoy0[1], ayer0, "titulo") = {}
    /\ Equal(hoy0[1], ayer0, "id_producto") = {1}
    /\ Equal(hoy0[1], ayer0, "link_publicacion") = {2}
    /\ fila_anterior[1] = 2
    /\ Out(1).ranking_anterior = Num(3)

====
